---- MODULE Spec2Model ----
(***************************************************************************)
(* Model of app.py of agri-rag: the Flask handlers POST /upload,           *)
(* GET /processed and POST /chat, the manifest processed_index.json, the   *)
(* temporary folder data/, the permanent folder processed_data/, the       *)
(* lazily built RAGSearch object and its vector store.                      *)
(*                                                                         *)
(* A request is handled by a worker thread that walks through the handler  *)
(* in steps; under Spec the steps of several workers interleave (the       *)
(* handlers take no lock), under SpecSeq one request is handled at a time. *)
(***************************************************************************)
EXTENDS Integers, Sequences, FiniteSets, TLC

\* ------------------------------------------------------------------ bounds
NumWorkers == 2
MaxRequests == 3
MaxThreadedRequests == 2
MaxRestarts == 1
MaxTime == 2
TicksPerSecond == 2

Workers == 1..NumWorkers

\* ------------------------------------------------------------------ inputs
\* The uploaded PDF files: a file is the sequence of the texts of its pages
\* ("" is a page without extractable text).
PdfFiles == << <<"wheat">>, <<"", "rice">>, <<"maize", "">>, <<"", "">> >>

Contents == {PdfFiles[i] : i \in DOMAIN PdfFiles}

\* The filenames a client sends: a directory prefix, a base and an extension.
NoName == [dir |-> "", base |-> "", ext |-> ""]

RawNames ==
    { NoName,
      [dir |-> "../", base |-> "", ext |-> ""],
      [dir |-> "", base |-> "a", ext |-> ".pdf"],
      [dir |-> "../", base |-> "b", ext |-> ".pdf"] }

Messages == {"", "how to grow rice"}

\* ------------------------------------------------------------------ helpers
NoFile == <<"absent">>

\* vectorstore.index is None: no index was built or loaded yet.
NoIndex == [built |-> FALSE, entries |-> <<>>]

Range(s) == {s[i] : i \in DOMAIN s}

\* werkzeug's secure_filename: the directory part is dropped, the rest kept.
SecureFilename(raw) == [base |-> raw.base, ext |-> raw.ext]

PathName(n) == n.base \o n.ext

\* sha256 of the file's bytes: one digest per content, no two alike.
ComputeFileHash(c) ==
    "sha256-" \o ToString(CHOOSE i \in DOMAIN PdfFiles : PdfFiles[i] = c)

RECURSIVE LStrip(_)
LStrip(s) == IF s = <<>> THEN <<>>
             ELSE IF Head(s) = "" THEN LStrip(Tail(s)) ELSE s

RECURSIVE RStrip(_)
RStrip(s) == IF s = <<>> THEN <<>>
             ELSE IF s[Len(s)] = "" THEN RStrip(SubSeq(s, 1, Len(s) - 1)) ELSE s

\* The text without .strip(): pages without text still give "\n\n".
ExtractTextNoStrip(f) == IF f = NoFile THEN <<>> ELSE f

\* "\n\n".join(text_parts).strip(): the page texts, without the empty pages
\* at both ends; a file that cannot be read (absent) gives no page at all.
ExtractTextFromPdf(f) == IF f = NoFile THEN <<>> ELSE RStrip(LStrip(f))

IsNonEmpty(t) == t # ""

\* chunk_documents + embed_chunks: one vector entry per chunk of the text,
\* each with the metadata {text: chunk}.
ChunkAndEmbed(text) ==
    LET chunks == SelectSeq(text, IsNonEmpty)
    IN  [i \in 1..Len(chunks) |-> [text |-> chunks[i]]]

\* FaissVectorStore.add_embeddings: appends, creating the index if none.
AddEmbeddings(index, entries) ==
    [built |-> TRUE, entries |-> index.entries \o entries]

\* datetime.utcnow().isoformat() + "Z": the fraction is printed only when it
\* is not zero.
IsoFormat(t) == [sec |-> t \div TicksPerSecond, frac |-> t % TicksPerSecond]

\* a < b for two such strings: within one second "...SSZ" is greater than
\* every "...SS.ffffffZ" ("Z" sorts after ".").
IsoLess(a, b) ==
    \/ a.sec < b.sec
    \/ /\ a.sec = b.sec
       /\ \/ a.frac # 0 /\ b.frac = 0
          \/ a.frac # 0 /\ b.frac # 0 /\ a.frac < b.frac

\* strftime("%Y%m%d%H%M%S"): the second, without the fraction.
Strftime(t) == ToString(t \div TicksPerSecond)

\* json.dump(index_list, f): the manifest file holds the list.
SaveProcessedIndex(index_list) == [valid |-> TRUE, items |-> index_list]

\* json.load(f), or [] when the file does not parse.
LoadProcessedIndex(file) == IF file.valid THEN file.items ELSE <<>>

\* The insertion of a sort without reverse=True: least key first.
RECURSIVE InsertAsc(_, _)
InsertAsc(r, s) ==
    IF s = <<>> THEN <<r>>
    ELSE IF IsoLess(r.processed_at, Head(s).processed_at)
         THEN <<r>> \o s
         ELSE <<Head(s)>> \o InsertAsc(r, Tail(s))

\* sorted(..., key=processed_at, reverse=True): stable, greatest key first.
RECURSIVE InsertDesc(_, _)
InsertDesc(r, s) ==
    IF s = <<>> THEN <<r>>
    ELSE IF IsoLess(Head(s).processed_at, r.processed_at)
         THEN <<r>> \o s
         ELSE <<Head(s)>> \o InsertDesc(r, Tail(s))

RECURSIVE SortedByProcessedAt(_)
SortedByProcessedAt(s) ==
    IF s = <<>> THEN <<>>
    ELSE InsertDesc(s[Len(s)], SortedByProcessedAt(SubSeq(s, 1, Len(s) - 1)))

\* ------------------------------------------------------------------ state
VARIABLES
    threaded,   \* app.run serves requests on concurrent threads
    now,        \* the clock datetime.utcnow() reads, in ticks
    tempDir,    \* data/: filename -> content of the temporary upload
    procDir,    \* processed_data/: the stored files, as {name, data}
    manifest,   \* the file processed_data/processed_index.json
    vsDisk,     \* the vector store's snapshot on disk
    rag,        \* the global rag: 0 is None, else the RAGSearch object
    ragObjs,    \* the RAGSearch objects built by this process: their index
    th,         \* each worker's place in its handler and the handler's locals
    resp,       \* the response sent by the last step, if it sent one
    succeeded,  \* history: the contents whose upload was answered 200 + file
    nOk,        \* history: how many uploads were answered 200 + file
    nReq,       \* history: requests received
    nRestarts,  \* history: process restarts
    bootSucceeded \* history: `succeeded` when the process was last started

vars == <<threaded, now, tempDir, procDir, manifest, vsDisk, rag, ragObjs,
          th, resp, succeeded, nOk, nReq, nRestarts, bootSucceeded>>

TempNames == {PathName(SecureFilename(r)) : r \in RawNames} \ {""}

IdleThread ==
    [pc |-> "idle", kind |-> "none", content |-> NoFile,
     filename |-> SecureFilename(NoName), file_hash |-> "", index |-> <<>>,
     entries |-> <<>>, inst |-> 0, dest_name |-> "", message |-> "",
     priorOk |-> FALSE]

Response(status, body) ==
    [status |-> status, body |-> body, file |-> <<>>, processed |-> <<>>]

NoResponse == Response(0, "none")

DuplicateResponse == Response(200, "File already processed earlier. Ready to chat!")

ExtractFailed == Response(500, "Failed to extract text from PDF")

ServerError == Response(500, "Internal Server Error")

StoredResponse(rec) ==
    [status |-> 200, body |-> "File uploaded, processed, and stored successfully!",
     file |-> <<rec>>, processed |-> <<>>]

\* The files of processed_data/ after a file is moved to `name`: os.rename
\* replaces a file that is already there.
Renamed(dir, name, data) ==
    {f \in dir : f.name # name} \cup {[name |-> name, data |-> data]}

Exists(dir, name) == \E f \in dir : f.name = name

JoinProcessed(name) == "processed_data/" \o name

\* The threads that handle requests: all of them on a threaded server, one
\* alone otherwise.
MayRun(w) == threaded \/ w = 1

Reply(w, r) ==
    /\ th' = [th EXCEPT ![w] = IdleThread]
    /\ resp' = r

NoReply == resp' = NoResponse

\* The requests the model lets the server receive.
RequestBudget == IF threaded THEN MaxThreadedRequests ELSE MaxRequests

InitState(t) ==
    /\ threaded = t
    /\ now = 0
    /\ tempDir = [n \in TempNames |-> NoFile]
    /\ procDir = {}
    /\ manifest = SaveProcessedIndex(<<>>)
    /\ vsDisk = NoIndex
    /\ rag = 0
    /\ ragObjs = <<>>
    /\ th = [w \in Workers |-> IdleThread]
    /\ resp = NoResponse
    /\ succeeded = {}
    /\ nOk = 0
    /\ nReq = 0
    /\ nRestarts = 0
    /\ bootSucceeded = {}

Init == InitState(TRUE)

InitSeq == InitState(FALSE)

\* ------------------------------------------------------------------ /upload
\* Lines 81-95: the checks of the request, secure_filename, file.save.
Receive(w) ==
    /\ th[w].pc = "idle"
    /\ MayRun(w)
    /\ nReq < RequestBudget
    /\ nReq' = nReq + 1
    /\ \E hasFile \in BOOLEAN, raw \in RawNames, c \in Contents :
         LET filename == SecureFilename(raw) IN
         IF ~hasFile
         THEN /\ Reply(w, Response(400, "No file part"))
              /\ UNCHANGED tempDir
         ELSE IF raw = NoName
         THEN /\ Reply(w, Response(400, "No selected file"))
              /\ UNCHANGED tempDir
         ELSE IF PathName(filename) = ""
         THEN /\ Reply(w, ServerError)
              /\ UNCHANGED tempDir
         ELSE /\ tempDir' = [tempDir EXCEPT ![PathName(filename)] = c]
              /\ th' = [th EXCEPT ![w] =
                          [IdleThread EXCEPT !.pc = "hash", !.kind = "upload",
                                             !.content = c, !.filename = filename,
                                             !.priorOk = (c \in succeeded)]]
              /\ NoReply
    /\ UNCHANGED <<threaded, now, procDir, manifest, vsDisk, rag, ragObjs,
                   succeeded, nOk, nRestarts, bootSucceeded>>

\* Line 97: compute_file_hash(temp_path); open() raises when the file is gone.
Hash(w) ==
    /\ th[w].pc = "hash"
    /\ MayRun(w)
    /\ LET f == tempDir[PathName(th[w].filename)] IN
       IF f = NoFile
       THEN Reply(w, ServerError)
       ELSE /\ th' = [th EXCEPT ![w].pc = "scan", ![w].file_hash = ComputeFileHash(f)]
            /\ NoReply
    /\ UNCHANGED <<threaded, now, tempDir, procDir, manifest, vsDisk, rag, ragObjs,
                   succeeded, nOk, nReq, nRestarts, bootSucceeded>>

\* A scan that looks at the last record only.
IsDuplicateLast(index, file_hash) ==
    index # <<>> /\ index[Len(index)].hash = file_hash

\* A scan that compares the hash with the wrong field of the record.
IsDuplicateByName(index, file_hash) ==
    \E i \in DOMAIN index : index[i].filename = file_hash

IsDuplicate(index, file_hash) == \E i \in DOMAIN index : index[i].hash = file_hash

\* Lines 100-108: load the manifest and scan it for the hash.
Scan(w) ==
    /\ th[w].pc = "scan"
    /\ MayRun(w)
    /\ IF IsDuplicate(LoadProcessedIndex(manifest), th[w].file_hash)
       THEN /\ tempDir' = [tempDir EXCEPT ![PathName(th[w].filename)] = NoFile]
            /\ Reply(w, DuplicateResponse)
       ELSE /\ th' = [th EXCEPT ![w].pc = "extract",
                                ![w].index = LoadProcessedIndex(manifest)]
            /\ NoReply
            /\ UNCHANGED tempDir
    /\ UNCHANGED <<threaded, now, procDir, manifest, vsDisk, rag, ragObjs,
                   succeeded, nOk, nReq, nRestarts, bootSucceeded>>

HasNoText(pdf_text) == pdf_text = <<>>

\* Lines 110-132: extract the text, give up when there is none, else chunk
\* and embed it.
Extract(w) ==
    /\ th[w].pc = "extract"
    /\ MayRun(w)
    /\ LET pdf_text == ExtractTextFromPdf(tempDir[PathName(th[w].filename)]) IN
       IF HasNoText(pdf_text)
       THEN /\ tempDir' = [tempDir EXCEPT ![PathName(th[w].filename)] = NoFile]
            /\ Reply(w, ExtractFailed)
       ELSE /\ th' = [th EXCEPT ![w].pc = "getrag",
                                ![w].entries = ChunkAndEmbed(pdf_text)]
            /\ NoReply
            /\ UNCHANGED tempDir
    /\ UNCHANGED <<threaded, now, procDir, manifest, vsDisk, rag, ragObjs,
                   succeeded, nOk, nReq, nRestarts, bootSucceeded>>

AfterGetRag(kind) == IF kind = "chat" THEN "check" ELSE "add"

\* Lines 27-32, the test `rag is None`: a handler that finds an object
\* returns it, one that finds None goes on to build one.
GetRag(w) ==
    /\ th[w].pc = "getrag"
    /\ MayRun(w)
    /\ IF rag = 0
       THEN th' = [th EXCEPT ![w].pc = "construct"]
       ELSE th' = [th EXCEPT ![w].pc = AfterGetRag(th[w].kind), ![w].inst = rag]
    /\ NoReply
    /\ UNCHANGED <<threaded, now, tempDir, procDir, manifest, vsDisk, rag, ragObjs,
                   succeeded, nOk, nReq, nRestarts, bootSucceeded>>

\* RAGSearch(): the new object's vector store is loaded from the snapshot.
NewRagSearch == vsDisk

\* Line 31: rag = RAGSearch().
Construct(w) ==
    /\ th[w].pc = "construct"
    /\ MayRun(w)
    /\ ragObjs' = Append(ragObjs, NewRagSearch)
    /\ rag' = Len(ragObjs) + 1
    /\ th' = [th EXCEPT ![w].pc = AfterGetRag(th[w].kind), ![w].inst = Len(ragObjs) + 1]
    /\ NoReply
    /\ UNCHANGED <<threaded, now, tempDir, procDir, manifest, vsDisk,
                   succeeded, nOk, nReq, nRestarts, bootSucceeded>>

\* FaissVectorStore.save(): the snapshot on disk becomes the index in memory.
VectorStoreSave(index) == index

\* The snapshot when save() is not called after the add.
SnapshotNotSaved(disk, index) == disk

\* The snapshot after lines 138-139 (or 141-142): save() follows the add.
SnapshotAfterAdd(disk, index) == VectorStoreSave(index)

\* Lines 136-142: add_embeddings and save, on either branch.
AddSave(w) ==
    /\ th[w].pc = "add"
    /\ MayRun(w)
    /\ LET index == AddEmbeddings(ragObjs[th[w].inst], th[w].entries) IN
       /\ ragObjs' = [ragObjs EXCEPT ![th[w].inst] = index]
       /\ vsDisk' = SnapshotAfterAdd(vsDisk, index)
    /\ th' = [th EXCEPT ![w].pc = "dest"]
    /\ NoReply
    /\ UNCHANGED <<threaded, now, tempDir, procDir, manifest, rag,
                   succeeded, nOk, nReq, nRestarts, bootSucceeded>>

\* Lines 144-150: the name in processed_data, with the second as a suffix
\* when the name is taken.
DestName(filename, dir, ts) ==
    IF Exists(dir, PathName(filename))
    THEN filename.base \o "_" \o ts \o filename.ext
    ELSE PathName(filename)

NewRec(dest_name, file_hash, t) ==
    [filename |-> dest_name, hash |-> file_hash, processed_at |-> IsoFormat(t),
     path |-> JoinProcessed(dest_name)]

\* Lines 144-150: choose the destination; the clock is read only when the
\* name is taken.
PickDest(w) ==
    /\ th[w].pc = "dest"
    /\ MayRun(w)
    /\ \E t \in now..MaxTime :
         /\ Exists(procDir, PathName(th[w].filename)) \/ t = now
         /\ now' = t
         /\ th' = [th EXCEPT ![w].pc = "move",
                             ![w].dest_name = DestName(th[w].filename, procDir, Strftime(t))]
    /\ NoReply
    /\ UNCHANGED <<threaded, tempDir, procDir, manifest, vsDisk, rag, ragObjs,
                   succeeded, nOk, nReq, nRestarts, bootSucceeded>>

\* Line 152: os.rename(temp_path, dest_path). It raises when the temporary
\* file is gone or the system refuses the move; the handler then ends in a
\* 500 and the temporary file stays where it is.
Move(w) ==
    /\ th[w].pc = "move"
    /\ MayRun(w)
    /\ \E osError \in BOOLEAN :
         LET temp == PathName(th[w].filename) IN
         IF tempDir[temp] = NoFile \/ osError
         THEN /\ Reply(w, ServerError)
              /\ UNCHANGED <<tempDir, procDir>>
         ELSE /\ procDir' = Renamed(procDir, th[w].dest_name, tempDir[temp])
              /\ tempDir' = [tempDir EXCEPT ![temp] = NoFile]
              /\ th' = [th EXCEPT ![w].pc = "record"]
              /\ NoReply
    /\ UNCHANGED <<threaded, now, manifest, vsDisk, rag, ragObjs,
                   succeeded, nOk, nReq, nRestarts, bootSucceeded>>

\* The list written to processed_index.json: the list loaded at line 100
\* with the new record appended.
UpdatedIndex(index, new_rec) == Append(index, new_rec)

\* Lines 155-165: build the record, append it, write the manifest, answer.
Record(w) ==
    /\ th[w].pc = "record"
    /\ MayRun(w)
    /\ \E t \in now..MaxTime :
         LET new_rec == NewRec(th[w].dest_name, th[w].file_hash, t) IN
         /\ now' = t
         /\ manifest' = SaveProcessedIndex(UpdatedIndex(th[w].index, new_rec))
         /\ Reply(w, StoredResponse(new_rec))
    /\ succeeded' = succeeded \cup {th[w].content}
    /\ nOk' = nOk + 1
    /\ UNCHANGED <<threaded, tempDir, procDir, vsDisk, rag, ragObjs, nReq, nRestarts, bootSucceeded>>

\* ------------------------------------------------------------------ /processed
\* Lines 167-171.
ListProcessed(w) ==
    /\ th[w].pc = "idle"
    /\ MayRun(w)
    /\ nReq < RequestBudget
    /\ nReq' = nReq + 1
    /\ th' = [th EXCEPT ![w] = IdleThread]
    /\ resp' = [status |-> 200, body |-> "processed", file |-> <<>>,
                processed |-> SortedByProcessedAt(LoadProcessedIndex(manifest))]
    /\ UNCHANGED <<threaded, now, tempDir, procDir, manifest, vsDisk, rag, ragObjs,
                   succeeded, nOk, nRestarts, bootSucceeded>>

\* ------------------------------------------------------------------ /chat
\* Lines 173-175: the handler starts with get_rag().
ChatBegin(w) ==
    /\ th[w].pc = "idle"
    /\ MayRun(w)
    /\ nReq < RequestBudget
    /\ nReq' = nReq + 1
    /\ \E m \in Messages :
         th' = [th EXCEPT ![w] = [IdleThread EXCEPT !.pc = "getrag", !.kind = "chat",
                                                    !.message = m]]
    /\ NoReply
    /\ UNCHANGED <<threaded, now, tempDir, procDir, manifest, vsDisk, rag, ragObjs,
                   succeeded, nOk, nRestarts, bootSucceeded>>

\* Lines 176-183: the check of the message, then search_and_summarize.
ChatCheck(w) ==
    /\ th[w].pc = "check"
    /\ MayRun(w)
    /\ IF th[w].message = ""
       THEN Reply(w, Response(400, "Message cannot be empty"))
       ELSE Reply(w, [status |-> 200, body |-> "response", file |-> <<>>,
                      processed |-> ragObjs[th[w].inst].entries])
    /\ UNCHANGED <<threaded, now, tempDir, procDir, manifest, vsDisk, rag, ragObjs,
                   succeeded, nOk, nReq, nRestarts, bootSucceeded>>

\* ------------------------------------------------------------------ process
\* The process ends and app.py is started again: memory is lost, the files
\* stay (lines 18-25 find the folders and the manifest in place).
Restart ==
    /\ \A w \in Workers : th[w].pc = "idle"
    /\ nRestarts < MaxRestarts
    /\ nRestarts' = nRestarts + 1
    /\ bootSucceeded' = succeeded
    /\ rag' = 0
    /\ ragObjs' = <<>>
    /\ NoReply
    /\ UNCHANGED <<threaded, now, tempDir, procDir, manifest, vsDisk, th,
                   succeeded, nOk, nReq>>

Next ==
    \/ \E w \in Workers : Receive(w)
    \/ \E w \in Workers : Hash(w)
    \/ \E w \in Workers : Scan(w)
    \/ \E w \in Workers : Extract(w)
    \/ \E w \in Workers : GetRag(w)
    \/ \E w \in Workers : Construct(w)
    \/ \E w \in Workers : AddSave(w)
    \/ \E w \in Workers : PickDest(w)
    \/ \E w \in Workers : Move(w)
    \/ \E w \in Workers : Record(w)
    \/ \E w \in Workers : ListProcessed(w)
    \/ \E w \in Workers : ChatBegin(w)
    \/ \E w \in Workers : ChatCheck(w)
    \/ Restart

Spec == Init /\ [][Next]_vars

SpecSeq == InitSeq /\ [][Next]_vars

\* ------------------------------------------------------------------ claims
Records == LoadProcessedIndex(manifest)

\* The vector entries the chunks of content c give.
EntriesOf(c) == Range(ChunkAndEmbed(ExtractTextFromPdf(c)))

\* How often the entries of content c are in a vector index.
TimesIn(index, c) ==
    Cardinality({i \in DOMAIN index.entries : index.entries[i] \in EntriesOf(c)})

HasChunksOf(index, c) == EntriesOf(c) \subseteq Range(index.entries)

NoPageHasText(c) == \A i \in DOMAIN c : c[i] = ""

\* The step is one of worker w's handler.
StepOf(w) == th'[w] # th[w]

Returns(w) == th[w].pc # "idle" /\ th'[w].pc = "idle"

\* C1: an upload whose content was uploaded successfully before it was
\* received changes neither the vector store (on disk or in memory) nor the
\* manifest nor the stored files in any of its steps, and it is answered 200
\* with the "already processed" message and no file field.
C1_DuplicateUploadIsNoOp ==
    [][\A w \in Workers :
         (th[w].kind = "upload" /\ th[w].priorOk /\ StepOf(w)) =>
            /\ vsDisk' = vsDisk
            /\ ragObjs' = ragObjs
            /\ manifest' = manifest
            /\ procDir' = procDir
            /\ Returns(w) => resp' = DuplicateResponse]_vars

C1_Witness ==
    /\ resp = DuplicateResponse
    /\ nOk = 1
    /\ \E c \in succeeded : TimesIn(vsDisk, c) = Cardinality(EntriesOf(c))

\* C2: no two records of the manifest carry the same hash.
C2_HashUnique ==
    \A i, j \in DOMAIN Records : i # j => Records[i].hash # Records[j].hash

C2_Witness ==
    /\ threaded
    /\ nOk = 2
    /\ Cardinality(succeeded) = 1
    /\ Len(Records) = 1

\* C3: a record that is in the manifest is in it, unchanged, after every step.
C3_RecordsKept ==
    [][\A r \in Range(Records) : r \in Range(LoadProcessedIndex(manifest'))]_vars

\* C4: the paths of the manifest's records are pairwise distinct, and no move
\* replaces a file that an earlier upload stored.
C4_DistinctPaths ==
    \A i, j \in DOMAIN Records : i # j => Records[i].path # Records[j].path

\* C5: an upload of a file without extractable text, whose hash is not in
\* the manifest, changes neither the manifest nor the vector store nor the
\* stored files in any of its steps; it is answered 500 "Failed to extract
\* text", its temporary file is gone and its hash is not in the manifest.
C5_EmptyTextRejected ==
    [][\A w \in Workers :
         (/\ th[w].kind = "upload"
          /\ NoPageHasText(th[w].content)
          /\ ~IsDuplicate(Records, ComputeFileHash(th[w].content))
          /\ StepOf(w)) =>
            /\ manifest' = manifest
            /\ vsDisk' = vsDisk
            /\ ragObjs' = ragObjs
            /\ procDir' = procDir
            /\ Returns(w) =>
                 /\ resp' = ExtractFailed
                 /\ tempDir'[PathName(th[w].filename)] = NoFile
                 /\ ~IsDuplicate(LoadProcessedIndex(manifest'),
                                 ComputeFileHash(th[w].content))]_vars

C5_Witness ==
    /\ resp = ExtractFailed
    /\ nOk = 1
    /\ Len(Records) = 1
    /\ \A n \in TempNames : tempDir[n] = NoFile

\* C6: whatever was uploaded successfully has its record in the manifest
\* file and its chunks in the snapshot of the vector store, so that after a
\* restart the manifest that is loaded and the RAGSearch that is built hold
\* them.
C6_SuccessfulUploadsPersist ==
    \A c \in succeeded :
       /\ IsDuplicate(Records, ComputeFileHash(c))
       /\ HasChunksOf(vsDisk, c)
       /\ rag # 0 => HasChunksOf(ragObjs[rag], c)

C6_Witness ==
    /\ nRestarts = 1
    /\ rag # 0
    /\ \E c \in bootSucceeded :
         /\ EntriesOf(c) # {}
         /\ HasChunksOf(ragObjs[rag], c)
         /\ IsDuplicate(Records, ComputeFileHash(c))

\* C7: a chat request with an empty message builds no RAGSearch, does not
\* search, and is answered 400.
C7_EmptyChatBuildsNothing ==
    [][\A w \in Workers :
         (th[w].kind = "chat" /\ th[w].message = "" /\ StepOf(w)) =>
            /\ ragObjs' = ragObjs
            /\ rag' = rag
            /\ Returns(w) => resp'.status = 400]_vars

IsSortedDesc(s) ==
    \A i \in 1..(Len(s) - 1) : ~IsoLess(s[i].processed_at, s[i + 1].processed_at)

\* C8: GET /processed answers with as many records as uploads were answered
\* 200 with a file record, the records of the manifest, greatest
\* processed_at first, and leaves the manifest as it is.
C8_ListProcessed ==
    [][resp'.body = "processed" =>
         /\ Len(resp'.processed) = nOk
         /\ Range(resp'.processed) = Range(Records)
         /\ IsSortedDesc(resp'.processed)
         /\ manifest' = manifest]_vars

C8_Witness ==
    /\ resp.body = "processed"
    /\ Len(resp.processed) = 2
    /\ nOk = 2
    /\ IsoLess(resp.processed[2].processed_at, resp.processed[1].processed_at)
    /\ resp.processed # Records

\* C9: a process builds at most one RAGSearch.
C9_RagBuiltOnce == Len(ragObjs) <= 1

\* C10: between requests, a content has its chunks in the saved vector store
\* exactly when the manifest holds a record with its hash, and never twice.
C10_ManifestMatchesStore ==
    (\A w \in Workers : th[w].pc = "idle") =>
       \A c \in Contents :
          ~NoPageHasText(c) =>
             /\ HasChunksOf(vsDisk, c) <=> IsDuplicate(Records, ComputeFileHash(c))
             /\ TimesIn(vsDisk, c) <= Cardinality(EntriesOf(c))

====
